---- MODULE Spec2Model ----
(***************************************************************************)
(* JSON-RPC 2.0 over HTTP: the JsonRpcServer of jsonrpchttp.py.            *)
(*                                                                         *)
(* Python values are tagged records: t is the Python type name, the other  *)
(* field holds the payload.  A dict is a function from its keys; a str     *)
(* that the code takes apart (the media-type headers) is a sequence of     *)
(* one-character strings.                                                  *)
(***************************************************************************)
EXTENDS Integers, Sequences, FiniteSets, TLC

\* ------------------------------------------------------------------------
\* Bounds of the model
\* ------------------------------------------------------------------------

MaxBatch == 2       \* longest batch array in a body
MaxPositional == 3  \* longest positional params list

\* ------------------------------------------------------------------------
\* Python values
\* ------------------------------------------------------------------------

None == [t |-> "NoneType"]
PyStr(s) == [t |-> "str", s |-> s]
PyInt(n) == [t |-> "int", n |-> n]
PyBool(b) == [t |-> "bool", b |-> b]
PyFloat(f) == [t |-> "float", f |-> f]
PyList(items) == [t |-> "list", items |-> items]
PyTuple(items) == [t |-> "tuple", items |-> items]
PyDict(map) == [t |-> "dict", map |-> map]
PyBytes(items) == [t |-> "bytes", items |-> items]
\* a str kept as the sequence of its characters
PyChars(chars) == [t |-> "str", chars |-> chars]

type(v) == v.t

\* len() of a list, tuple or dict
len(v) == IF type(v) = "dict" THEN Cardinality(DOMAIN v.map) ELSE Len(v.items)

\* ------------------------------------------------------------------------
\* Module constants
\* ------------------------------------------------------------------------

PARSE_ERROR == PyTuple(<<PyInt(-32700), PyStr("Parse error")>>)
INVALID_REQUEST == PyTuple(<<PyInt(-32600), PyStr("Invalid Request")>>)
METHOD_NOT_FOUND == PyTuple(<<PyInt(-32601), PyStr("Method not found")>>)
INVALID_PARAMS == PyTuple(<<PyInt(-32602), PyStr("Invalid params")>>)

ONLY_POST_ALLOWED == PyTuple(<<PyInt(0), PyStr("Only POST allowed")>>)
BAD_CONTENT_TYPE == PyTuple(<<PyInt(1), PyStr("Bad or missing Content-Type header")>>)
BAD_ACCEPT == PyTuple(<<PyInt(2), PyStr("Bad Accept header")>>)
SERVER_ERROR == PyTuple(<<PyInt(-32000), PyStr("Server error")>>)

HTTP_OK == "200 OK"
HTTP_NO_CONTENT == "204 No Content"
HTTP_BAD_REQUEST == "400 Bad Request"
HTTP_METHOD_NOT_ALLOWED == "405 Method Not Allowed"
HTTP_NOT_ACCEPTABLE == "406 Not Acceptable"
HTTP_UNSUPPORTED_MEDIA == "415 Unsupported Media Type"

\* ------------------------------------------------------------------------
\* Response envelope builder
\* ------------------------------------------------------------------------

dict_only_contains(d, keys) == \A k \in DOMAIN d.map : k \in keys

return_result_null_id(result, req_id, err) ==
    IF err
    THEN PyDict([jsonrpc |-> PyStr("2.0"), error |-> result, id |-> None])
    ELSE PyDict([jsonrpc |-> PyStr("2.0"), result |-> result, id |-> None])

return_result(result, req_id, err) ==
    IF err
    THEN PyDict([jsonrpc |-> PyStr("2.0"), error |-> result, id |-> req_id])
    ELSE PyDict([jsonrpc |-> PyStr("2.0"), result |-> result, id |-> req_id])

geterrdata_swapped(error) ==
    PyDict([code |-> error.items[2], message |-> error.items[1]])

\* error[0] and error[1]: defined for a tuple of at least two elements
geterrdata(error) ==
    PyDict([code |-> error.items[1], message |-> error.items[2]])

return_error(error, req_id) == return_result(geterrdata(error), req_id, TRUE)

\* ------------------------------------------------------------------------
\* str operations used on the media-type headers
\* ------------------------------------------------------------------------

RECURSIVE split(_, _)
\* s.split(sep) for a one-character separator
split(s, sep) ==
    IF \A i \in 1..Len(s) : s[i] # sep
    THEN <<s>>
    ELSE LET i == CHOOSE j \in 1..Len(s) :
                      s[j] = sep /\ \A k \in 1..(j - 1) : s[k] # sep
         IN  <<SubSeq(s, 1, i - 1)>> \o split(SubSeq(s, i + 1, Len(s)), sep)

Whitespace == {" ", "\t"}

RECURSIVE lstrip(_)
lstrip(s) ==
    IF s # <<>> /\ Head(s) \in Whitespace THEN lstrip(Tail(s)) ELSE s

RECURSIVE rstrip(_)
rstrip(s) ==
    IF s # <<>> /\ s[Len(s)] \in Whitespace
    THEN rstrip(SubSeq(s, 1, Len(s) - 1))
    ELSE s

strip(s) == rstrip(lstrip(s))

\* s[:n]
prefix(s, n) == SubSeq(s, 1, IF Len(s) < n THEN Len(s) ELSE n)

CHARSET_EQ == \* "charset="
    <<"c","h","a","r","s","e","t","=">>
CT_JSON == \* "application/json"
    <<"a","p","p","l","i","c","a","t","i","o","n","/","j","s","o","n">>
CT_JSON_RPC == \* "application/json-rpc"
    <<"a","p","p","l","i","c","a","t","i","o","n","/","j","s","o","n","-","r","p","c">>
CT_JSONREQUEST == \* "application/jsonrequest"
    <<"a","p","p","l","i","c","a","t","i","o","n","/","j","s","o","n","r","e","q","u","e","s","t">>

not_valid_content_type(content_type) ==
    LET parts == split(content_type.chars, ";")
    IN  IF Len(parts) > 2 THEN TRUE
        ELSE IF Len(parts) > 1 /\ prefix(strip(parts[2]), 8) # CHARSET_EQ THEN TRUE
        ELSE parts[1] \notin {CT_JSON_RPC, CT_JSON, CT_JSONREQUEST}

\* ------------------------------------------------------------------------
\* Envelope validator
\* ------------------------------------------------------------------------

is_valid_request_any_id(request) ==
    /\ type(request) = "dict"
    /\ dict_only_contains(request, {"jsonrpc", "method", "params", "id"})
    /\ "jsonrpc" \in DOMAIN request.map
    /\ request.map["jsonrpc"] = PyStr("2.0")
    /\ "method" \in DOMAIN request.map
    /\ type(request.map["method"]) = "str"
    /\ ("params" \notin DOMAIN request.map
           \/ type(request.map["params"]) \in {"list", "dict"})

is_valid_request(request) ==
    /\ type(request) = "dict"
    /\ dict_only_contains(request, {"jsonrpc", "method", "params", "id"})
    /\ "jsonrpc" \in DOMAIN request.map
    /\ request.map["jsonrpc"] = PyStr("2.0")
    /\ "method" \in DOMAIN request.map
    /\ type(request.map["method"]) = "str"
    /\ ("id" \notin DOMAIN request.map
           \/ type(request.map["id"]) \in {"str", "int"})
    /\ ("params" \notin DOMAIN request.map
           \/ type(request.map["params"]) \in {"list", "dict"})

\* ------------------------------------------------------------------------
\* Method registry
\* ------------------------------------------------------------------------

\* A registered handler: the argument names and defaults that
\* inspect.getargspec reports for it, and what its body does when entered.
Handler(args, defaults, does) == [args |-> args, defaults |-> defaults, does |-> does]

Returns(v) == [kind |-> "return", value |-> v, exc |-> ""]
Raises(e) == [kind |-> "raise", value |-> None, exc |-> e]

APP_ERROR == PyTuple(<<PyInt(42), PyStr("Application failure")>>)

\* The methods dictionary handed to the constructor.
Registry ==
    [add  |-> Handler(<<"rpc", "ip_addr", "a", "b">>, None, Returns(PyInt(5))),
     opt  |-> Handler(<<"rpc", "ip_addr", "a", "b">>, PyTuple(<<PyInt(0)>>),
                      Returns(APP_ERROR)),
     ping |-> Handler(<<"rpc", "ip_addr">>, None, Returns(None)),
     boom |-> Handler(<<"rpc", "ip_addr">>, None, Raises("RuntimeError")),
     one  |-> Handler(<<"rpc">>, None, Returns(PyStr("ok"))),
     tri  |-> Handler(<<"rpc", "ip_addr">>, None,
                      Returns(PyTuple(<<PyInt(1), PyStr("two"), PyInt(3)>>))),
     uno  |-> Handler(<<"rpc", "ip_addr">>, None, Returns(PyTuple(<<PyInt(1)>>))),
     lst  |-> Handler(<<"rpc", "ip_addr">>, None,
                      Returns(PyList(<<PyInt(1), PyInt(2)>>)))]

\* JsonRpcServer(methods, allowed_origins): the constructor accepts a dict
\* with str keys whose values are callables of at least one argument.
JsonRpcServer(methods, allowed_origins) ==
    [methods |-> methods, allowed_origins |-> allowed_origins]

getargspec(method) == [args |-> method.args, defaults |-> method.defaults]

\* ------------------------------------------------------------------------
\* Single request
\* ------------------------------------------------------------------------

\* How one process_request call ended: the value it returned or the
\* exception it raised, the source line it left from, and whether the
\* handler body was entered.
Returned(request, v, line, called) ==
    [request |-> request, kind |-> "return", value |-> v, exc |-> "",
     line |-> line, called |-> called]
Raised(request, e, line, called) ==
    [request |-> request, kind |-> "raise", value |-> None, exc |-> e,
     line |-> line, called |-> called]

\* Python's argument binding for a call f(*pos, **kw) of a function with
\* the given argument names, the last ndefaults of them having defaults.
call_binds(args, ndefaults, npos, kwkeys) ==
    /\ npos <= Len(args)
    /\ \A k \in kwkeys : \E i \in (npos + 1)..Len(args) : args[i] = k
    /\ \A i \in (npos + 1)..(Len(args) - ndefaults) : args[i] \in kwkeys

\* method(self, ip_addr, **params) or method(self, ip_addr, *params)
invoke(method, ip_addr, params) ==
    LET ndefaults == IF method.defaults # None THEN len(method.defaults) ELSE 0
        npos == IF type(params) = "dict" THEN 2 ELSE 2 + len(params)
        kwkeys == IF type(params) = "dict" THEN DOMAIN params.map ELSE {}
    IN  IF ~call_binds(method.args, ndefaults, npos, kwkeys)
        THEN [kind |-> "raise", value |-> None, exc |-> "TypeError", called |-> FALSE]
        ELSE [kind |-> method.does.kind, value |-> method.does.value,
              exc |-> method.does.exc, called |-> TRUE]

\* args.args[2 : req_args + 2]
required_names(args, req_args) ==
    {args.args[i] : i \in 3..(IF req_args + 2 < Len(args.args)
                              THEN req_args + 2 ELSE Len(args.args))}

params_invalid_off_by_one(args, req_args, params) ==
    IF len(params) <= req_args THEN TRUE
    ELSE IF type(params) = "dict"
         THEN \/ \E x \in DOMAIN params.map :
                    \A i \in 1..Len(args.args) : args.args[i] # x
              \/ \E x \in required_names(args, req_args) :
                    x \notin DOMAIN params.map
         ELSE FALSE

params_invalid(args, req_args, params) ==
    IF len(params) < req_args THEN TRUE
    ELSE IF type(params) = "dict"
         THEN \/ \E x \in DOMAIN params.map :
                    \A i \in 1..Len(args.args) : args.args[i] # x
              \/ \E x \in required_names(args, req_args) :
                    x \notin DOMAIN params.map
         ELSE FALSE

method_missing_as_invalid_params(request, req_id) ==
    IF req_id = None
    THEN Returned(request, None, 130, FALSE)
    ELSE Returned(request, return_error(INVALID_PARAMS, req_id), 131, FALSE)

\* lines 128-131: the name is no key of self.methods
method_missing(request, req_id) ==
    IF req_id = None
    THEN Returned(request, None, 130, FALSE)
    ELSE Returned(request, return_error(METHOD_NOT_FOUND, req_id), 131, FALSE)

\* lines 156-159: invalid_params is set
params_rejected(request, req_id) ==
    IF req_id = None
    THEN Returned(request, None, 158, FALSE)
    ELSE Returned(request, return_error(INVALID_PARAMS, req_id), 159, FALSE)

method_returned_answering_notifications(request, res, req_id) ==
    IF type(res) = "tuple"
    THEN IF len(res) < 2
         THEN Raised(request, "IndexError", 168, TRUE)
         ELSE Returned(request, return_error(res, req_id), 168, TRUE)
    ELSE Returned(request, return_result(res, req_id, FALSE), 170, TRUE)

\* lines 165-170: the handler returned res
method_returned(request, res, req_id) ==
    IF req_id = None
    THEN Returned(request, None, 166, TRUE)
    ELSE IF type(res) = "tuple"
    THEN IF len(res) < 2
         THEN Raised(request, "IndexError", 168, TRUE)
         ELSE Returned(request, return_error(res, req_id), 168, TRUE)
    ELSE Returned(request, return_result(res, req_id, FALSE), 170, TRUE)

process_request(self, request, ip_addr) ==
    IF ~is_valid_request(request)
    THEN Returned(request, return_error(INVALID_REQUEST, None), 120, FALSE)
    ELSE
    LET name == request.map["method"].s
        params == IF "params" \in DOMAIN request.map
                  THEN request.map["params"] ELSE PyList(<<>>)
        req_id == IF "id" \in DOMAIN request.map
                  THEN request.map["id"] ELSE None
    IN  IF name \notin DOMAIN self.methods
        THEN method_missing(request, req_id)
        ELSE
        LET method == self.methods[name]
            args == getargspec(method)
            req_args == Len(args.args)
                          - (IF args.defaults # None THEN len(args.defaults) ELSE 0)
                          - 2
        IN  IF params_invalid(args, req_args, params)
            THEN params_rejected(request, req_id)
            ELSE
            LET res == invoke(method, ip_addr, params)
            IN  IF res.kind = "raise"
                THEN Raised(request, res.exc, 163, res.called)
                ELSE method_returned(request, res.value, req_id)

\* ------------------------------------------------------------------------
\* Batch
\* ------------------------------------------------------------------------

\* What process_request_list, or the dispatch of a single request, came to:
\* the value returned or the exception raised, with the log of the
\* process_request calls made.
Dispatched(kind, value, exc, log) ==
    [kind |-> kind, value |-> value, exc |-> exc, log |-> log]

RECURSIVE request_loop(_, _, _, _, _)
\* the for loop of process_request_list over the remaining elements
request_loop(self, rest, ip_addr, results, log) ==
    IF rest = <<>>
    THEN Dispatched("return",
                    IF Len(results) = 0 THEN None ELSE PyList(results), "", log)
    ELSE LET result == process_request(self, Head(rest), ip_addr)
         IN  IF result.kind = "raise"
             THEN Dispatched("raise", None, result.exc, Append(log, result))
             ELSE request_loop(self, Tail(rest), ip_addr,
                               IF result.value # None
                               THEN Append(results, result.value) ELSE results,
                               Append(log, result))

process_request_list(self, request, ip_addr) ==
    request_loop(self, request.items, ip_addr, <<>>, <<>>)

\* ------------------------------------------------------------------------
\* Collaborators of the transport adapter
\* ------------------------------------------------------------------------

\* ipaddress.ip_address(s).packed: 4 bytes for an IPv4 address, 16 for an
\* IPv6 address, ValueError for anything else.
ip_address_packed(s) ==
    CASE s = PyStr("127.0.0.1") -> Returns(PyBytes(<<127, 0, 0, 1>>))
      [] s = PyStr("::1") -> Returns(PyBytes([i \in 1..16 |-> IF i = 16 THEN 1 ELSE 0]))
      [] OTHER -> Raises("ValueError")

\* The request body on the wire: bytes that are UTF-8 or not; text that is
\* JSON or not; the value the JSON text denotes.
BadUtf8Body == [utf8 |-> FALSE]
MalformedBody == [utf8 |-> TRUE, text |-> [wellformed |-> FALSE]]
JsonBody(v) == [utf8 |-> TRUE, text |-> [wellformed |-> TRUE, value |-> v]]

\* bytes.decode('utf-8')
decode(b) == IF b.utf8 THEN Returns(b.text) ELSE Raises("UnicodeDecodeError")

\* json.loads(text)
json_loads(text) ==
    IF text.wellformed THEN Returns(text.value) ELSE Raises("JSONDecodeError")

\* json.loads(env['wsgi.input'].read().decode('utf-8'))
read_request(b) ==
    LET text == decode(b)
    IN  IF text.kind = "raise" THEN text ELSE json_loads(text.value)

JSONErrors == {"JSONDecodeError"}

\* the classes an "except ValueError" clause catches
ValueErrors == {"ValueError", "UnicodeDecodeError", "JSONDecodeError"}

RECURSIVE json_dumps(_)
\* json.dumps(value): the JSON text, as the JSON value it writes
json_dumps(v) ==
    CASE type(v) = "NoneType" -> [json |-> "null"]
      [] type(v) = "bool" -> [json |-> IF v.b THEN "true" ELSE "false"]
      [] type(v) = "int" -> [json |-> "number", n |-> v.n]
      [] type(v) = "float" -> [json |-> "number", f |-> v.f]
      [] type(v) = "str" -> [json |-> "string", s |-> v.s]
      [] type(v) \in {"list", "tuple"} ->
            [json |-> "array",
             items |-> [i \in 1..Len(v.items) |-> json_dumps(v.items[i])]]
      [] type(v) = "dict" ->
            [json |-> "object",
             members |-> [k \in DOMAIN v.map |-> json_dumps(v.map[k])]]

\* str.encode()
encode(text) == [t |-> "bytes", text |-> text]

\* JsonRpcServer.extra_checks
extra_checks(self, e, ip_addr) == None

\* ------------------------------------------------------------------------
\* Inputs
\* ------------------------------------------------------------------------

Absent == [t |-> "absent"]

\* the dict with the given (key, value) pairs, keys of Absent value left out
DictOf(pairs) ==
    LET present == {p \in pairs : p[2] # Absent}
    IN  [k \in {p[1] : p \in present} |-> (CHOOSE p \in present : p[1] = k)[2]]

CT_JSON_UTF8 == \* "application/json; charset=utf-8"
    <<"a","p","p","l","i","c","a","t","i","o","n","/","j","s","o","n",";"," ","c","h","a","r","s","e","t","=","u","t","f","-","8">>
CT_TEXT == \* "text/plain"
    <<"t","e","x","t","/","p","l","a","i","n">>
CT_JSON_Q == \* "application/json; q=1"
    <<"a","p","p","l","i","c","a","t","i","o","n","/","j","s","o","n",";"," ","q","=","1">>
CT_JSON_TWO == \* "application/json; charset=utf-8; q=1"
    <<"a","p","p","l","i","c","a","t","i","o","n","/","j","s","o","n",";"," ","c","h","a","r","s","e","t","=","u","t","f","-","8",";"," ","q","=","1">>

RequestMethods == {PyStr("POST"), PyStr("OPTIONS"), PyStr("GET"), PyStr("PUT")}
ContentTypes ==
    {Absent, PyChars(CT_JSON), PyChars(CT_JSON_UTF8), PyChars(CT_JSON_RPC),
     PyChars(CT_TEXT), PyChars(CT_JSON_Q), PyChars(CT_JSON_TWO)}
Accepts == {Absent, PyChars(CT_JSON), PyChars(CT_TEXT), PyChars(CT_JSON_Q)}
RemoteAddrs == {Absent, PyStr("127.0.0.1"), PyStr("::1"), PyStr("localhost")}

\* the WSGI environments a call may arrive with
Environments ==
    {DictOf({<<"REQUEST_METHOD", m>>, <<"CONTENT_TYPE", ct>>,
             <<"HTTP_ACCEPT", ac>>, <<"REMOTE_ADDR", ra>>}) :
        m \in RequestMethods, ct \in ContentTypes,
        ac \in Accepts, ra \in RemoteAddrs}

Envelope(jsonrpc, method, params, id, extra) ==
    PyDict(DictOf({<<"jsonrpc", jsonrpc>>, <<"method", method>>,
                   <<"params", params>>, <<"id", id>>, <<"extra", extra>>}))

MethodNames == {"add", "opt", "ping", "boom", "one", "missing", "Add"}
PositionalParams == {PyList([i \in 1..n |-> PyInt(1)]) : n \in 0..MaxPositional}
NamedParams == {PyDict([k \in K |-> PyInt(1)]) : K \in SUBSET {"a", "b", "z", "rpc"}}
ValidIds == {PyStr(""), PyStr("x"), PyInt(0), PyInt(7)}
InvalidIds == {None, PyBool(TRUE), PyFloat("1.5")}

\* well-formed envelopes: every method name, params shape and id
WellFormedRequests ==
    {Envelope(PyStr("2.0"), PyStr(m), p, i, Absent) :
        m \in MethodNames,
        p \in {Absent} \cup PositionalParams \cup NamedParams,
        i \in {Absent} \cup ValidIds}

\* envelopes with any combination of defects in their fields
DefectiveRequests ==
    {Envelope(j, m, p, i, x) :
        j \in {Absent, PyStr("2.0"), PyStr("1.0"), PyFloat("2.0")},
        m \in {Absent, PyStr("add"), PyInt(1)},
        p \in {Absent, PyList(<<PyInt(1), PyInt(1)>>), PyStr("ab"), None},
        i \in {Absent} \cup ValidIds \cup InvalidIds,
        x \in {Absent, PyInt(1)}}

\* requests to the handlers that return a tuple of another length or a list
ReturnShapeRequests ==
    {Envelope(PyStr("2.0"), PyStr(m), Absent, i, Absent) :
        m \in {"tri", "uno", "lst"}, i \in {Absent, PyInt(7)}}

\* JSON values that are no object
NonObjects == {PyInt(1), PyStr("add"), None, PyBool(FALSE)}

Pos2 == PyList(<<PyInt(1), PyInt(1)>>)
Pos3 == PyList(<<PyInt(1), PyInt(1), PyInt(1)>>)

\* the elements batches are made of
BatchElements ==
    {Envelope(PyStr("2.0"), PyStr("add"), Pos2, PyInt(7), Absent),
     Envelope(PyStr("2.0"), PyStr("add"), Pos2, Absent, Absent),
     Envelope(PyStr("2.0"), PyStr("add"), Pos3, Absent, Absent),
     Envelope(PyStr("2.0"), PyStr("add"), Absent, PyStr("x"), Absent),
     Envelope(PyStr("2.0"), PyStr("opt"), Pos2, PyInt(0), Absent),
     Envelope(PyStr("2.0"), PyStr("boom"), Absent, PyStr(""), Absent),
     Envelope(PyStr("2.0"), PyStr("missing"), Absent, PyStr("x"), Absent),
     Envelope(PyStr("2.0"), PyStr("missing"), Absent, Absent, Absent),
     Envelope(Absent, PyStr("add"), Pos2, PyInt(7), Absent),
     Envelope(PyStr("2.0"), PyStr("add"), Pos2, None, Absent),
     PyInt(1),
     PyList(<<>>)}

Batches ==
    {PyList(b) : b \in UNION {[1..n -> BatchElements] : n \in 0..MaxBatch}}

\* the bodies a call may carry
Bodies ==
    {BadUtf8Body, MalformedBody}
        \cup {JsonBody(v) : v \in WellFormedRequests \cup DefectiveRequests
                                    \cup ReturnShapeRequests
                                    \cup NonObjects \cup Batches}

\* the values of allowed_origins a server is constructed with
AllowedOrigins == {None, PyList(<<PyStr("https://example.org")>>)}

\* ------------------------------------------------------------------------
\* The server and one call through __call__ / process_call
\* ------------------------------------------------------------------------

VARIABLES
    self,       \* the JsonRpcServer: methods, allowed_origins
    pc,         \* where the call in progress stands
    env,        \* the WSGI environment of the call
    headers,    \* process_call's headers list
    ip_addr,    \* process_call's ip_addr
    body,       \* what was read from env['wsgi.input'], Absent while unread
    request,    \* the parsed body
    result,     \* what process_call returns
    started,    \* the start_response calls made: (status, headers)
    trace,      \* the process_request calls made and how each ended
    exc,        \* the exception that left __call__, "" if none
    output,     \* what __call__ returned
    peer        \* a second call, in progress at the same time: its locals

vars == <<self, pc, env, headers, ip_addr, body, request, result, started,
          trace, exc, output, peer>>

\* the locals of a call as one record, before the call starts
IdleCall ==
    [pc |-> "idle", env |-> <<>>, headers |-> <<>>, ip_addr |-> None,
     body |-> Absent, request |-> None, result |-> None, started |-> <<>>,
     trace |-> <<>>, exc |-> "", output |-> None]

\* the locals of a call before it starts
NoCall ==
    /\ env = <<>>
    /\ headers = <<>>
    /\ ip_addr = None
    /\ body = Absent
    /\ request = None
    /\ result = None
    /\ started = <<>>
    /\ trace = <<>>
    /\ exc = ""
    /\ output = None

Init ==
    /\ self \in {JsonRpcServer(Registry, o) : o \in AllowedOrigins}
    /\ pc = "idle"
    /\ NoCall
    /\ peer = IdleCall

start_response(status, response_headers) ==
    started' = Append(started, <<status, response_headers>>)

\* an exception leaves process_call and __call__
Raise(e) ==
    /\ exc' = e
    /\ pc' = "raised"

\* process_call returns value to __call__
Return(value) ==
    /\ result' = value
    /\ pc' = "return"

\* the transport layer calls the server
Call(e) ==
    /\ pc = "idle"
    /\ env' = e
    /\ pc' = "headers"
    /\ UNCHANGED <<peer, self, headers, ip_addr, body, request, result, started,
                   trace, exc, output>>

\* lines 194-197, were the origins policy dropped from the server on its
\* first use
SetHeaders_dropping_origins ==
    /\ pc = "headers"
    /\ headers' = <<<<"Content-Type", "application/json-rpc">>>>
    /\ self' = [self EXCEPT !.allowed_origins = None]
    /\ IF self.allowed_origins # None
       THEN Raise("AttributeError")
       ELSE pc' = "method" /\ exc' = exc
    /\ UNCHANGED <<peer, env, ip_addr, body, request, result, started, trace,
                   output>>

\* lines 194-197
SetHeaders ==
    /\ pc = "headers"
    /\ IF self.allowed_origins # None
       THEN \* self.allowed_origin is no attribute of the server
            /\ Raise("AttributeError")
            /\ headers' = <<<<"Content-Type", "application/json-rpc">>>>
       ELSE /\ headers' = <<<<"Content-Type", "application/json-rpc">>>>
            /\ pc' = "method"
            /\ exc' = exc
    /\ UNCHANGED <<peer, self, env, ip_addr, body, request, result, started, trace,
                   output>>

\* lines 201-213
CheckMethod ==
    /\ pc = "method"
    /\ IF env["REQUEST_METHOD"] # PyStr("POST")
       THEN LET allow == Append(headers, <<"Allow", "POST">>)
            IN  IF env["REQUEST_METHOD"] = PyStr("OPTIONS")
                THEN LET preflight ==
                           Append(allow, <<"Access-Control-Allow-Headers",
                               "Content-Type, Accept, Content-Length, Host, Origin, User-Agent, Referer">>)
                     IN  /\ headers' = preflight
                         /\ start_response(HTTP_OK, preflight)
                         /\ Return(None)
                ELSE /\ headers' = allow
                     /\ start_response(HTTP_METHOD_NOT_ALLOWED, allow)
                     /\ Return(return_error(ONLY_POST_ALLOWED, None))
       ELSE /\ pc' = "content_type"
            /\ UNCHANGED <<headers, started, result>>
    /\ UNCHANGED <<peer, self, env, ip_addr, body, request, trace, exc, output>>

\* lines 217-219
CheckContentType ==
    /\ pc = "content_type"
    /\ IF "CONTENT_TYPE" \notin DOMAIN env
          \/ not_valid_content_type(env["CONTENT_TYPE"])
       THEN /\ start_response(HTTP_UNSUPPORTED_MEDIA, headers)
            /\ Return(return_error(BAD_CONTENT_TYPE, None))
       ELSE /\ pc' = "accept"
            /\ UNCHANGED <<started, result>>
    /\ UNCHANGED <<peer, self, env, headers, ip_addr, body, request, trace, exc,
                   output>>

\* lines 221-223
CheckAccept ==
    /\ pc = "accept"
    /\ IF "HTTP_ACCEPT" \in DOMAIN env
          /\ not_valid_content_type(env["HTTP_ACCEPT"])
       THEN /\ start_response(HTTP_NOT_ACCEPTABLE, headers)
            /\ Return(return_error(BAD_ACCEPT, None))
       ELSE /\ pc' = "remote_addr"
            /\ UNCHANGED <<started, result>>
    /\ UNCHANGED <<peer, self, env, headers, ip_addr, body, request, trace, exc,
                   output>>

\* lines 225-229
GetRemoteAddr ==
    /\ pc = "remote_addr"
    /\ IF "REMOTE_ADDR" \in DOMAIN env
       THEN LET packed == ip_address_packed(env["REMOTE_ADDR"])
            IN  IF packed.kind = "raise"
                THEN /\ Raise(packed.exc)
                     /\ ip_addr' = ip_addr
                ELSE /\ ip_addr' = packed.value
                     /\ pc' = "extra_checks"
                     /\ exc' = exc
       ELSE /\ ip_addr' = None
            /\ pc' = "extra_checks"
            /\ exc' = exc
    /\ UNCHANGED <<peer, self, env, headers, body, request, result, started, trace,
                   output>>

\* lines 233-235
ExtraChecks ==
    /\ pc = "extra_checks"
    /\ LET resp == extra_checks(self, env, ip_addr)
       IN  IF resp # None
           THEN Return(resp)
           ELSE /\ pc' = "read"
                /\ result' = result
    /\ UNCHANGED <<peer, self, env, headers, ip_addr, body, request, started, trace,
                   exc, output>>

\* lines 239-243; b is what env['wsgi.input'].read() delivers
ReadBody(b) ==
    /\ pc = "read"
    /\ body' = b
    /\ LET parsed == read_request(b)
       IN  IF parsed.kind = "raise"
           THEN IF parsed.exc \in ValueErrors
                THEN /\ start_response(HTTP_BAD_REQUEST, headers)
                     /\ Return(return_error(PARSE_ERROR, None))
                     /\ UNCHANGED <<request, exc>>
                ELSE /\ Raise(parsed.exc)
                     /\ UNCHANGED <<request, started, result>>
           ELSE /\ request' = parsed.value
                /\ pc' = "dispatch"
                /\ UNCHANGED <<started, result, exc>>
    /\ UNCHANGED <<peer, self, env, headers, ip_addr, trace, output>>

\* lines 247-250 and the calls they make
dispatch(server, req, addr) ==
    IF type(req) = "list"
    THEN process_request_list(server, req, addr)
    ELSE LET r == process_request(server, req, addr)
         IN  Dispatched(r.kind, r.value, r.exc, <<r>>)

Dispatch ==
    /\ pc = "dispatch"
    /\ LET d == dispatch(self, request, ip_addr)
       IN  /\ trace' = d.log
           /\ IF d.kind = "raise"
              THEN /\ Raise(d.exc)
                   /\ result' = result
              ELSE /\ result' = d.value
                   /\ pc' = "respond"
                   /\ exc' = exc
    /\ UNCHANGED <<peer, self, env, headers, ip_addr, body, request, started, output>>

\* lines 252-257
Respond ==
    /\ pc = "respond"
    /\ IF result = None
       THEN start_response(HTTP_NO_CONTENT, <<>>)
       ELSE start_response(HTTP_OK, headers)
    /\ pc' = "return"
    /\ UNCHANGED <<peer, self, env, headers, ip_addr, body, request, result, trace,
                   exc, output>>

\* line 261: __call__ hands the encoded result to the transport layer
ReturnBody ==
    /\ pc = "return"
    /\ output' = PyList(<<IF result = None THEN PyBytes(<<>>)
                          ELSE encode(json_dumps(result))>>)
    /\ pc' = "done"
    /\ UNCHANGED <<peer, self, env, headers, ip_addr, body, request, result, started,
                   trace, exc>>

\* the call is over: its locals are gone, the server remains
Finish ==
    /\ pc \in {"done", "raised"}
    /\ pc' = "idle"
    /\ env' = <<>>
    /\ headers' = <<>>
    /\ ip_addr' = None
    /\ body' = Absent
    /\ request' = None
    /\ result' = None
    /\ started' = <<>>
    /\ trace' = <<>>
    /\ exc' = ""
    /\ output' = None
    /\ UNCHANGED <<peer, self>>

Next ==
    \/ \E e \in Environments : Call(e)
    \/ SetHeaders
    \/ CheckMethod
    \/ CheckContentType
    \/ CheckAccept
    \/ GetRemoteAddr
    \/ ExtraChecks
    \/ \E b \in Bodies : ReadBody(b)
    \/ Dispatch
    \/ Respond
    \/ ReturnBody
    \/ Finish

Spec == Init /\ [][Next]_vars

\* the call in progress is over
Over == pc \in {"done", "raised"}

\* ------------------------------------------------------------------------
\* Two calls in progress at the same time
\* ------------------------------------------------------------------------

\* start_response, Return and Raise on the locals of a call kept as a record
declared(call, status, response_headers) ==
    [call EXCEPT !.started = Append(@, <<status, response_headers>>)]
returning(call, value) == [call EXCEPT !.result = value, !.pc = "return"]
raising(call, e) == [call EXCEPT !.exc = e, !.pc = "raised"]

\* One step of __call__ / process_call on the locals of a call, for the
\* server as it is when the step is taken; b is what the body stream
\* delivers if the step reads it.
step(server, call, b) ==
    CASE call.pc = "headers" ->    \* lines 194-197
            LET c == [call EXCEPT
                        !.headers = <<<<"Content-Type", "application/json-rpc">>>>]
            IN  IF server.allowed_origins # None
                THEN raising(c, "AttributeError")
                ELSE [c EXCEPT !.pc = "method"]
      [] call.pc = "method" ->     \* lines 201-213
            IF call.env["REQUEST_METHOD"] # PyStr("POST")
            THEN LET allow == Append(call.headers, <<"Allow", "POST">>)
                     preflight ==
                         Append(allow, <<"Access-Control-Allow-Headers",
                             "Content-Type, Accept, Content-Length, Host, Origin, User-Agent, Referer">>)
                 IN  IF call.env["REQUEST_METHOD"] = PyStr("OPTIONS")
                     THEN returning(declared([call EXCEPT !.headers = preflight],
                                             HTTP_OK, preflight), None)
                     ELSE returning(declared([call EXCEPT !.headers = allow],
                                             HTTP_METHOD_NOT_ALLOWED, allow),
                                    return_error(ONLY_POST_ALLOWED, None))
            ELSE [call EXCEPT !.pc = "content_type"]
      [] call.pc = "content_type" ->    \* lines 217-219
            IF "CONTENT_TYPE" \notin DOMAIN call.env
               \/ not_valid_content_type(call.env["CONTENT_TYPE"])
            THEN returning(declared(call, HTTP_UNSUPPORTED_MEDIA, call.headers),
                           return_error(BAD_CONTENT_TYPE, None))
            ELSE [call EXCEPT !.pc = "accept"]
      [] call.pc = "accept" ->     \* lines 221-223
            IF "HTTP_ACCEPT" \in DOMAIN call.env
               /\ not_valid_content_type(call.env["HTTP_ACCEPT"])
            THEN returning(declared(call, HTTP_NOT_ACCEPTABLE, call.headers),
                           return_error(BAD_ACCEPT, None))
            ELSE [call EXCEPT !.pc = "remote_addr"]
      [] call.pc = "remote_addr" ->     \* lines 225-229
            IF "REMOTE_ADDR" \in DOMAIN call.env
            THEN LET packed == ip_address_packed(call.env["REMOTE_ADDR"])
                 IN  IF packed.kind = "raise"
                     THEN raising(call, packed.exc)
                     ELSE [call EXCEPT !.ip_addr = packed.value,
                                       !.pc = "extra_checks"]
            ELSE [call EXCEPT !.ip_addr = None, !.pc = "extra_checks"]
      [] call.pc = "extra_checks" ->    \* lines 233-235
            LET resp == extra_checks(server, call.env, call.ip_addr)
            IN  IF resp # None
                THEN returning(call, resp)
                ELSE [call EXCEPT !.pc = "read"]
      [] call.pc = "read" ->       \* lines 239-243
            LET parsed == read_request(b)
                c == [call EXCEPT !.body = b]
            IN  IF parsed.kind = "raise"
                THEN IF parsed.exc \in ValueErrors
                     THEN returning(declared(c, HTTP_BAD_REQUEST, c.headers),
                                    return_error(PARSE_ERROR, None))
                     ELSE raising(c, parsed.exc)
                ELSE [c EXCEPT !.request = parsed.value, !.pc = "dispatch"]
      [] call.pc = "dispatch" ->   \* lines 247-250
            LET d == dispatch(server, call.request, call.ip_addr)
                c == [call EXCEPT !.trace = d.log]
            IN  IF d.kind = "raise"
                THEN raising(c, d.exc)
                ELSE [c EXCEPT !.result = d.value, !.pc = "respond"]
      [] call.pc = "respond" ->    \* lines 252-257
            [(IF call.result = None
              THEN declared(call, HTTP_NO_CONTENT, <<>>)
              ELSE declared(call, HTTP_OK, call.headers))
                EXCEPT !.pc = "return"]
      [] call.pc = "return" ->     \* line 261
            [call EXCEPT
                !.output = PyList(<<IF call.result = None THEN PyBytes(<<>>)
                                    ELSE encode(json_dumps(call.result))>>),
                !.pc = "done"]

\* the call with this environment, about to run
called(e) == [IdleCall EXCEPT !.env = e, !.pc = "headers"]

RECURSIVE run(_, _, _)
\* the call run to its end with nothing else going on
run(server, call, b) ==
    IF call.pc \in {"done", "raised"} THEN call
    ELSE run(server, step(server, call, b), b)

\* what the transport layer gets from a call: the status lines declared,
\* the body returned, the exception that came out
outcome(call) == <<call.started, call.output, call.exc>>

\* the environments and bodies of the calls that run side by side
ConcurrentEnvironments ==
    {DictOf({<<"REQUEST_METHOD", m>>, <<"CONTENT_TYPE", ct>>,
             <<"REMOTE_ADDR", ra>>}) :
        m \in {PyStr("POST"), PyStr("OPTIONS")},
        ct \in {PyChars(CT_JSON), PyChars(CT_TEXT)},
        ra \in {Absent, PyStr("localhost")}}

ConcurrentBodies ==
    {MalformedBody,
     JsonBody(Envelope(PyStr("2.0"), PyStr("add"), Pos2, PyInt(7), Absent)),
     JsonBody(Envelope(PyStr("2.0"), PyStr("opt"), Pos2, Absent, Absent)),
     JsonBody(Envelope(PyStr("2.0"), PyStr("boom"), Absent, PyStr("x"), Absent)),
     JsonBody(PyList(<<Envelope(PyStr("2.0"), PyStr("missing"), Absent, PyInt(0), Absent),
                       Envelope(PyStr("2.0"), PyStr("add"), Pos2, Absent, Absent)>>))}

\* the transport layer calls the server while another call is in progress
PeerCall(e) ==
    /\ peer.pc = "idle"
    /\ peer' = called(e)
    /\ UNCHANGED <<self, pc, env, headers, ip_addr, body, request, result,
                   started, trace, exc, output>>

\* the second call takes its next step
PeerStep ==
    /\ peer.pc \notin {"idle", "read", "done", "raised"}
    /\ peer' = step(self, peer, Absent)
    /\ UNCHANGED <<self, pc, env, headers, ip_addr, body, request, result,
                   started, trace, exc, output>>

\* the second call reads its body
PeerReadBody(b) ==
    /\ peer.pc = "read"
    /\ peer' = step(self, peer, b)
    /\ UNCHANGED <<self, pc, env, headers, ip_addr, body, request, result,
                   started, trace, exc, output>>

\* the second call is over
PeerFinish ==
    /\ peer.pc \in {"done", "raised"}
    /\ peer' = IdleCall
    /\ UNCHANGED <<self, pc, env, headers, ip_addr, body, request, result,
                   started, trace, exc, output>>

ConcurrentNext ==
    \/ \E e \in ConcurrentEnvironments : Call(e)
    \/ SetHeaders
    \/ CheckMethod
    \/ CheckContentType
    \/ CheckAccept
    \/ GetRemoteAddr
    \/ ExtraChecks
    \/ \E b \in ConcurrentBodies : ReadBody(b)
    \/ Dispatch
    \/ Respond
    \/ ReturnBody
    \/ Finish
    \/ \E e \in ConcurrentEnvironments : PeerCall(e)
    \/ PeerStep
    \/ \E b \in ConcurrentBodies : PeerReadBody(b)
    \/ PeerFinish

\* the server with two calls interleaved step by step
ConcurrentSpec == Init /\ [][ConcurrentNext]_vars

\* ------------------------------------------------------------------------
\* Vocabulary of the properties
\* ------------------------------------------------------------------------

\* A candidate request that fails envelope validation, defect by defect.
Malformed(c) ==
    \/ c.t # "dict"
    \/ \E k \in DOMAIN c.map : k \notin {"jsonrpc", "method", "params", "id"}
    \/ "jsonrpc" \notin DOMAIN c.map
    \/ c.map["jsonrpc"] # PyStr("2.0")
    \/ "method" \notin DOMAIN c.map
    \/ c.map["method"].t # "str"
    \/ ("id" \in DOMAIN c.map /\ c.map["id"].t \notin {"str", "int"})
    \/ ("params" \in DOMAIN c.map /\ c.map["params"].t \notin {"list", "dict"})

HasId(c) == c.t = "dict" /\ "id" \in DOMAIN c.map

Notification(c) == ~Malformed(c) /\ ~HasId(c)

\* v is an error envelope with the given code and id
ErrorEnvelope(v, code, id) ==
    /\ v.t = "dict"
    /\ DOMAIN v.map = {"jsonrpc", "error", "id"}
    /\ v.map["jsonrpc"] = PyStr("2.0")
    /\ v.map["error"].t = "dict"
    /\ v.map["error"].map["code"] = PyInt(code)
    /\ v.map["id"] = id

\* v is a response envelope, success or error
Envelopes(v) ==
    /\ v.t = "dict"
    /\ DOMAIN v.map \in {{"jsonrpc", "error", "id"}, {"jsonrpc", "result", "id"}}

\* the dispatch of the parsed body has been carried out
AfterDispatch ==
    \/ pc \in {"respond", "return", "done"} /\ body # Absent /\ request # None
    \/ pc = "raised" /\ trace # <<>>

\* the call ended with this one status and an error envelope of this code
Answered(status, code) ==
    /\ pc = "done"
    /\ Len(started) = 1
    /\ started[1][1] = status
    /\ ErrorEnvelope(result, code, None)
    /\ output = PyList(<<encode(json_dumps(result))>>)

\* the header values of the inputs that are an accepted media type
AcceptedMediaTypes ==
    {PyChars(CT_JSON), PyChars(CT_JSON_UTF8), PyChars(CT_JSON_RPC)}

BadContentTypeHeader(e) ==
    "CONTENT_TYPE" \notin DOMAIN e \/ e["CONTENT_TYPE"] \notin AcceptedMediaTypes

BadAcceptHeader(e) ==
    "HTTP_ACCEPT" \in DOMAIN e /\ e["HTTP_ACCEPT"] \notin AcceptedMediaTypes

\* ------------------------------------------------------------------------
\* Properties
\* ------------------------------------------------------------------------

\* C1: a structurally valid request without an id gets no response from
\* process_request, whether its method is unknown, its parameters fail
\* binding, or its handler returned a value or a (code, message) pair.
C1_NotificationsGetNoResponse ==
    /\ \A i \in 1..Len(trace) :
          Notification(trace[i].request) => trace[i].value = None
    /\ (AfterDispatch /\ pc # "raised" /\ Notification(request)) => result = None

\* C1 witness: the handler of a notification ran and returned a
\* (code, message) pair, and nothing came back.
C1_Witness ==
    /\ pc = "done"
    /\ Len(trace) = 1
    /\ Notification(trace[1].request)
    /\ trace[1].request.map["method"] = PyStr("opt")
    /\ trace[1].line = 166
    /\ result = None

\* C2: a candidate that fails envelope validation gets the InvalidRequest
\* error envelope with id null from process_request, whatever id it
\* carried, alone or as an element of a batch, and no handler is invoked.
C2_InvalidEnvelopeAnsweredWithNullId ==
    \A i \in 1..Len(trace) :
        Malformed(trace[i].request) =>
            /\ trace[i].kind = "return"
            /\ ErrorEnvelope(trace[i].value, -32600, None)
            /\ ~trace[i].called

\* C2 witness: an element of a batch that lacks jsonrpc and carries the
\* id 7 was answered with id null.
C2_Witness ==
    /\ pc = "done"
    /\ type(request) = "list"
    /\ \E i \in 1..Len(trace) :
          /\ Malformed(trace[i].request)
          /\ HasId(trace[i].request)
          /\ trace[i].request.map["id"] = PyInt(7)
          /\ ErrorEnvelope(trace[i].value, -32600, None)

\* C3: the response process_request returns for a structurally valid
\* request with an id carries that id, in every outcome.
C3_ResponseCarriesRequestId ==
    /\ \A i \in 1..Len(trace) :
          (/\ ~Malformed(trace[i].request)
           /\ HasId(trace[i].request)
           /\ trace[i].kind = "return")
          => /\ Envelopes(trace[i].value)
             /\ trace[i].value.map["id"] = trace[i].request.map["id"]
    /\ (/\ AfterDispatch
        /\ pc # "raised"
        /\ ~Malformed(request)
        /\ HasId(request))
       => /\ Envelopes(result)
          /\ result.map["id"] = request.map["id"]

\* C3 witness: a request with id 0 whose handler returned a
\* (code, message) pair was answered under id 0.
C3_Witness ==
    /\ pc = "done"
    /\ Len(trace) = 1
    /\ HasId(request)
    /\ request.map["id"] = PyInt(0)
    /\ trace[1].line = 168
    /\ result.map["id"] = PyInt(0)

\* the responses the elements of a batch produce, in input order
RECURSIVE ElementResponses(_)
ElementResponses(elements) ==
    IF elements = <<>> THEN <<>>
    ELSE LET r == process_request(self, Head(elements), ip_addr)
         IN  (IF r.value # None THEN <<r.value>> ELSE <<>>)
                 \o ElementResponses(Tail(elements))

\* C4: process_request_list returns no content exactly when no element
\* of the batch produces a response, and otherwise the array of the
\* responses the elements produce, in input order, without nulls.
C4_BatchResponses ==
    (body # Absent /\ type(request) = "list" /\ pc \notin {"read", "dispatch"})
    => /\ pc # "raised"
       /\ result = IF ElementResponses(request.items) = <<>>
                   THEN None
                   ELSE PyList(ElementResponses(request.items))

\* C5: every call ends having declared exactly one status line out of
\* 200, 204, 400, 405, 406, 415 and returns a body; no exception leaves
\* the adapter.
C5_EveryCallAnswered ==
    Over =>
        /\ pc = "done"
        /\ exc = ""
        /\ Len(started) = 1
        /\ started[1][1] \in {HTTP_OK, HTTP_NO_CONTENT, HTTP_BAD_REQUEST,
                              HTTP_METHOD_NOT_ALLOWED, HTTP_NOT_ACCEPTABLE,
                              HTTP_UNSUPPORTED_MEDIA}
        /\ output # None

\* the handler the request names fails when it is entered
HandlerFails(c) ==
    /\ c.map["method"].s \in DOMAIN self.methods
    /\ self.methods[c.map["method"].s].does.kind = "raise"

\* C6: a handler that fails during invocation is caught at the dispatch
\* boundary: a request with an id gets the ServerError envelope (-32000)
\* under its id, a notification gets no response, and the rest of a batch
\* is still processed.
C6_HandlerFailureBecomesServerError ==
    /\ \A i \in 1..Len(trace) :
          (trace[i].called /\ HandlerFails(trace[i].request))
          => /\ trace[i].kind = "return"
             /\ IF HasId(trace[i].request)
                THEN ErrorEnvelope(trace[i].value, -32000,
                                   trace[i].request.map["id"])
                ELSE trace[i].value = None
    /\ (trace # <<>> /\ type(request) = "list")
       => Len(trace) = Len(request.items)

\* C7: the gates are evaluated in the order method, Content-Type, Accept
\* and the first failing one decides: a POST with a missing or invalid
\* Content-Type ends with 415 and BadContentType, a POST with a valid
\* Content-Type and a present but invalid Accept ends with 406 and
\* BadAccept; the envelope has id null, the body is not read and no
\* handler is invoked.
C7_FirstFailingGateDecides ==
    (Over /\ env["REQUEST_METHOD"] = PyStr("POST"))
    => /\ BadContentTypeHeader(env)
          => /\ Answered(HTTP_UNSUPPORTED_MEDIA, 1)
             /\ body = Absent
             /\ trace = <<>>
       /\ (~BadContentTypeHeader(env) /\ BadAcceptHeader(env))
          => /\ Answered(HTTP_NOT_ACCEPTABLE, 2)
             /\ body = Absent
             /\ trace = <<>>

\* C8: every OPTIONS request ends with status 200, an empty body and the
\* header Access-Control-Allow-Headers, whatever its Content-Type and
\* Accept and whatever allowed_origins is; the body is not read and no
\* handler is invoked.
C8_OptionsAlwaysPreflight ==
    (Over /\ env["REQUEST_METHOD"] = PyStr("OPTIONS"))
    => /\ pc = "done"
       /\ Len(started) = 1
       /\ started[1][1] = HTTP_OK
       /\ \E j \in 1..Len(started[1][2]) :
             started[1][2][j][1] = "Access-Control-Allow-Headers"
       /\ output = PyList(<<PyBytes(<<>>)>>)
       /\ body = Absent
       /\ trace = <<>>

\* C9: every request whose method is neither POST nor OPTIONS ends with
\* status 405, the OnlyPostAllowed envelope (code 0, id null) and the
\* header Allow: POST.
C9_OtherMethodsRefused ==
    (Over /\ env["REQUEST_METHOD"] \notin {PyStr("POST"), PyStr("OPTIONS")})
    => /\ Answered(HTTP_METHOD_NOT_ALLOWED, 0)
       /\ \E j \in 1..Len(started[1][2]) :
             started[1][2][j] = <<"Allow", "POST">>

\* the body read is not UTF-8 or not JSON
Unparsable(b) == ~b.utf8 \/ ~b.text.wellformed

Rejected415 ==
    /\ pc = "done"
    /\ Len(started) = 1
    /\ started[1][1] = HTTP_UNSUPPORTED_MEDIA
    /\ ErrorEnvelope(result, 1, None)

\* C11: a POST is rejected with status 415 and the BadContentType
\* envelope (code 1, id null) exactly when its Content-Type is absent or is
\* not one of application/json-rpc, application/json,
\* application/jsonrequest optionally followed by one charset= parameter.
C11_ContentTypeDecides415 ==
    (Over /\ env["REQUEST_METHOD"] = PyStr("POST"))
    => (Rejected415 <=> BadContentTypeHeader(env))

\* the header list carries Access-Control-Allow-Origin
AllowsOrigin(response_headers) ==
    \E j \in 1..Len(response_headers) :
        response_headers[j][1] = "Access-Control-Allow-Origin"

\* C12: on a server constructed with allowed_origins every response whose
\* status the adapter declares carries Access-Control-Allow-Origin, and on
\* a server without it no response does.
C12_AllowOriginFollowsPolicy ==
    Over =>
        IF self.allowed_origins # None
        THEN /\ Len(started) = 1
             /\ AllowsOrigin(started[1][2])
        ELSE \A j \in 1..Len(started) : ~AllowsOrigin(started[j][2])

\* the name the request gives is a key of the registry
Registered(c) == c.map["method"].s \in DOMAIN self.methods

\* C13: a structurally valid request with an id whose method name is no
\* exact key of the registry gets the MethodNotFound envelope (-32601)
\* under its id whatever its params are, without any handler invoked, and
\* a name that is in the registry never gets MethodNotFound.
C13_UnknownMethodIsMethodNotFound ==
    \A i \in 1..Len(trace) :
        (~Malformed(trace[i].request) /\ HasId(trace[i].request))
        => IF Registered(trace[i].request)
           THEN ~ErrorEnvelope(trace[i].value, -32601,
                               trace[i].request.map["id"])
           ELSE /\ trace[i].kind = "return"
                /\ ErrorEnvelope(trace[i].value, -32601,
                                 trace[i].request.map["id"])
                /\ ~trace[i].called

\* C13 witness: the name Add, which differs from the key add in case only,
\* with named params that add would reject, was answered MethodNotFound.
C13_Witness ==
    /\ pc = "done"
    /\ Len(trace) = 1
    /\ ~Malformed(request)
    /\ request.map["method"] = PyStr("Add")
    /\ "params" \in DOMAIN request.map
    /\ request.map["params"] = PyDict([z |-> PyInt(1)])
    /\ HasId(request)
    /\ ErrorEnvelope(result, -32601, request.map["id"])

\* the handler the request names
HandlerOf(c) == self.methods[c.map["method"].s]

\* how many of a handler's arguments have defaults
DefaultCount(h) == IF h.defaults = None THEN 0 ELSE Len(h.defaults.items)

\* a handler's declared parameter names, the two implicit leading ones
\* (execution context, caller address) not counted
DeclaredNames(h) == {h.args[i] : i \in 3..Len(h.args)}

\* those of them that have no default
RequiredNames(h) == {h.args[i] : i \in 3..(Len(h.args) - DefaultCount(h))}

\* the entry is the InvalidParams envelope under the request's id, given
\* without invoking the handler
AnsweredInvalidParams(r) ==
    /\ r.kind = "return"
    /\ ErrorEnvelope(r.value, -32602, r.request.map["id"])
    /\ ~r.called

\* a structurally valid request with an id for a registered method
Addressed(c) == ~Malformed(c) /\ HasId(c) /\ Registered(c)

\* C14: a valid request with an id, a registered method and params given
\* as a mapping gets InvalidParams (-32602) without the handler invoked
\* exactly when a supplied key is not a declared parameter name (the two
\* implicit leading parameters not counted) or a required declared name
\* is missing.
C14_NamedParamsBinding ==
    \A i \in 1..Len(trace) :
        LET c == trace[i].request
        IN  (/\ Addressed(c)
             /\ "params" \in DOMAIN c.map
             /\ c.map["params"].t = "dict")
            => (AnsweredInvalidParams(trace[i])
                <=> \/ \E k \in DOMAIN c.map["params"].map :
                          k \notin DeclaredNames(HandlerOf(c))
                    \/ \E n \in RequiredNames(HandlerOf(c)) :
                          n \notin DOMAIN c.map["params"].map)

\* the number of positional values the request supplies
PositionalCount(c) ==
    IF "params" \in DOMAIN c.map THEN Len(c.map["params"].items) ELSE 0

\* C15: a valid request with an id, a registered method and params given
\* as a sequence (or omitted) gets InvalidParams (-32602) exactly when the
\* sequence is shorter than the number of declared parameters without
\* defaults, the two implicit leading ones not counted; a sequence at
\* least that long is never rejected by the binder, whatever its length.
C15_PositionalParamsBinding ==
    \A i \in 1..Len(trace) :
        LET c == trace[i].request
        IN  (/\ Addressed(c)
             /\ ("params" \in DOMAIN c.map => c.map["params"].t = "list"))
            => /\ AnsweredInvalidParams(trace[i])
                  <=> PositionalCount(c) < Cardinality(RequiredNames(HandlerOf(c)))
               /\ trace[i].line \in {158, 159}
                  <=> PositionalCount(c) < Cardinality(RequiredNames(HandlerOf(c)))

\* C15 witness: add, which requires a and b, was given one positional
\* value and answered InvalidParams.
C15_Witness ==
    /\ pc = "done"
    /\ Len(trace) = 1
    /\ Addressed(request)
    /\ HasId(request)
    /\ request.map["method"] = PyStr("add")
    /\ "params" \in DOMAIN request.map
    /\ request.map["params"] = PyList(<<PyInt(1)>>)
    /\ ErrorEnvelope(result, -32602, request.map["id"])

\* the handler of the entry's request was entered and returned
HandlerReturned(r) ==
    /\ Addressed(r.request)
    /\ r.called
    /\ HandlerOf(r.request).does.kind = "return"

\* what it returned
HandlerValue(r) == HandlerOf(r.request).does.value

\* v is a (code, message) pair
IsPair(v) == v.t = "tuple" /\ Len(v.items) = 2

\* C16: when the handler of a valid request with an id returns a
\* (code, message) pair, the response is the error envelope with exactly
\* that code and message under the request's id, without a result field.
C16_PairBecomesErrorEnvelope ==
    \A i \in 1..Len(trace) :
        (HandlerReturned(trace[i]) /\ IsPair(HandlerValue(trace[i])))
        => /\ trace[i].kind = "return"
           /\ trace[i].value.t = "dict"
           /\ DOMAIN trace[i].value.map = {"jsonrpc", "error", "id"}
           /\ trace[i].value.map["id"] = trace[i].request.map["id"]
           /\ trace[i].value.map["error"] =
                 PyDict([code |-> HandlerValue(trace[i]).items[1],
                         message |-> HandlerValue(trace[i]).items[2]])

\* C16 witness: opt returned (42, "Application failure") for a request
\* with id "x", and the call ended with that error under "x".
C16_Witness ==
    /\ pc = "done"
    /\ Len(trace) = 1
    /\ HandlerReturned(trace[1])
    /\ request = trace[1].request
    /\ request.map["method"] = PyStr("opt")
    /\ HasId(request)
    /\ request.map["id"] = PyStr("x")
    /\ ErrorEnvelope(result, 42, PyStr("x"))
    /\ result.map["error"].map["message"] = PyStr("Application failure")

\* C17: when the handler of a valid request with an id returns anything
\* but a (code, message) pair (a scalar, null, a list, a mapping, a tuple
\* of another length), the response is the success envelope whose result
\* is that value, under the request's id, without an error field.
C17_OtherValuesBecomeResult ==
    \A i \in 1..Len(trace) :
        (HandlerReturned(trace[i]) /\ ~IsPair(HandlerValue(trace[i])))
        => /\ trace[i].kind = "return"
           /\ trace[i].value =
                 PyDict([jsonrpc |-> PyStr("2.0"),
                         result |-> HandlerValue(trace[i]),
                         id |-> trace[i].request.map["id"]])

\* the request elements of the parsed body, in input order
Elements == IF request.t = "list" THEN request.items ELSE <<request>>

\* the supplied params pass parameter binding against the handler
BindingPasses(c) ==
    IF "params" \in DOMAIN c.map /\ c.map["params"].t = "dict"
    THEN /\ DOMAIN c.map["params"].map \subseteq DeclaredNames(HandlerOf(c))
         /\ RequiredNames(HandlerOf(c)) \subseteq DOMAIN c.map["params"].map
    ELSE PositionalCount(c) >= Cardinality(RequiredNames(HandlerOf(c)))

\* the element is one whose handler is to be invoked
Eligible(c) == ~Malformed(c) /\ Registered(c) /\ BindingPasses(c)

WasCalled(r) == r.called

\* the requests whose handler was entered, in the order of the invocations
Invocations ==
    LET entered == SelectSeq(trace, WasCalled)
    IN  [i \in 1..Len(entered) |-> entered[i].request]

\* C18: within one call a handler is invoked exactly once for each
\* element that is structurally valid, names a registered method and
\* passes parameter binding (notifications included) and never for
\* another element, in the input order of the elements; an invalid,
\* unknown or unbindable element does not stop the later ones; and no
\* handler is invoked unless the gates passed and the body parsed.
C18_HandlersInvokedOncePerEligibleElement ==
    /\ trace # <<>> => (body # Absent /\ ~Unparsable(body))
    /\ AfterDispatch
       => /\ Invocations = SelectSeq(Elements, Eligible)
          /\ Len(trace) = Len(Elements)

\* C19: a POST that passed the gates and whose body parsed ends with
\* status 204 and an empty body exactly when dispatch produced no
\* response, and otherwise with status 200 and the JSON-encoded response
\* (protocol-level error envelopes included); over all calls an empty body
\* comes only with status 204 or with the OPTIONS preflight.
C19_StatusFollowsDispatchResult ==
    /\ (Over /\ body # Absent /\ ~Unparsable(body))
       => /\ pc = "done"
          /\ Len(started) = 1
          /\ IF result = None
             THEN /\ started[1][1] = HTTP_NO_CONTENT
                  /\ output = PyList(<<PyBytes(<<>>)>>)
             ELSE /\ started[1][1] = HTTP_OK
                  /\ output = PyList(<<encode(json_dumps(result))>>)
    /\ (pc = "done" /\ output = PyList(<<PyBytes(<<>>)>>))
       => /\ Len(started) = 1
          /\ \/ started[1][1] = HTTP_NO_CONTENT
             \/ env["REQUEST_METHOD"] = PyStr("OPTIONS")

\* the locals of the first call, as one record
ThisCall ==
    [pc |-> pc, env |-> env, headers |-> headers, ip_addr |-> ip_addr,
     body |-> body, request |-> request, result |-> result,
     started |-> started, trace |-> trace, exc |-> exc, output |-> output]

\* a call that is over came to what it comes to when run alone
AsWhenAlone(call) ==
    call.pc \in {"done", "raised"}
    => outcome(call) = outcome(run(self, called(call.env), call.body))

\* C20: no operation changes the method registry or allowed_origins, and
\* whatever the interleaving of two calls, the status and the response of
\* each are those the call produces when it runs alone.
C20_CallsDoNotInterfere ==
    /\ [][self' = self]_vars
    /\ [](AsWhenAlone(ThisCall) /\ AsWhenAlone(peer))

\* C20 witness: a call ended with status 200 while the other call, which
\* has read a different body, is still in progress.
C20_Witness ==
    /\ pc = "done"
    /\ Len(started) = 1
    /\ started[1][1] = HTTP_OK
    /\ peer.pc = "dispatch"
    /\ peer.body # body

====
